---- MODULE Spec2Model ----
(***************************************************************************)
(* Model of src/common/metrics.py (binary-classifier evaluation metrics)   *)
(* and of split_audio in src/common/audio_io.py.                           *)
(*                                                                         *)
(* Every function of the two files is a pure function of its arguments.    *)
(* Each one is an operator below, and each specification applies the       *)
(* operators to every input of a bounded set: the initial states are the   *)
(* arguments, and one action per function applies it to them.  No function *)
(* keeps state between calls, so a behaviour is one call (op = "init"      *)
(* before it, the function's name after it).                               *)
(*                                                                         *)
(* Numbers.  A score is an integer count of half units (score 1 is 0.5),   *)
(* so that the default threshold 0.5 is a score level and thresholds below *)
(* 0 and above 1 exist.  A float that the code obtains by a division is    *)
(* the pair <<numerator, denominator>>; <<0, 0>> is NaN (numpy's 0/0).     *)
(* Ratios are computed and compared exactly, so two floats that rounding    *)
(* alone would tell apart are equal here.                                  *)
(*                                                                         *)
(* Outcomes.  A call either returns, Ok(v), or raises, Raise(e).           *)
(***************************************************************************)
EXTENDS Integers, Sequences, FiniteSets, TLC

VARIABLES op, predictions, labels, threshold, result,
          audio, sr, segment_duration, segments

vars == <<op, predictions, labels, threshold, result,
          audio, sr, segment_duration, segments>>

audioVars == <<audio, sr, segment_duration, segments>>

---------------------------------------------------------------------------
(* Bounds of the model *)

\* longest scores / labels vector given to calculate_accuracy, calculate_metrics
MaxN == 3
\* largest score level given to calculate_accuracy, calculate_metrics
MaxScore == 2
\* longest scores / labels vector given to the ROC functions
MaxRocN == 4
\* largest score level given to the ROC functions
MaxRocScore == 2
\* longest audio array
MaxAudioLen == 5
\* largest sample rate
MaxSr == 3
\* longest segment duration, in half seconds
MaxDuration == 4

\* threshold: float = 0.5, in half units
DefaultThreshold == 1

---------------------------------------------------------------------------
(* Outcomes and floats *)

Ok(v) == [exc |-> "none", value |-> v]
Raise(e) == [exc |-> e, value |-> <<>>]
Returned(r) == r.exc = "none"

NaN == <<0, 0>>
IsNaN(x) == x[2] = 0
Zero == <<0, 1>>
One == <<1, 1>>
RatEq(a, b) == ~IsNaN(a) /\ ~IsNaN(b) /\ a[1] * b[2] = b[1] * a[2]
RatLeq(a, b) == ~IsNaN(a) /\ ~IsNaN(b) /\ a[1] * b[2] <= b[1] * a[2]

---------------------------------------------------------------------------
(* Inputs *)

SeqsUpTo(S, n) == UNION {[1..k -> S] : k \in 0..n}

\* a predictions array: 1-D scores, or 2-D rows (P(class 0), P(class 1))
Predictions(n, maxScore) ==
    {[ndim |-> 1, data |-> s] : s \in SeqsUpTo(0..maxScore, n)}
        \cup {[ndim |-> 2, data |-> [i \in DOMAIN s |-> <<maxScore - s[i], s[i]>>]] :
                s \in SeqsUpTo(0..maxScore, n)}
Labels(n) == SeqsUpTo({0, 1}, n)
\* thresholds, one level below and above the score range included
Thresholds(maxScore) == (0 - 1)..(maxScore + 1)

---------------------------------------------------------------------------
(* numpy *)

\* predictions[:, 1] if predictions.ndim > 1
PositiveClass(p) ==
    IF p.ndim > 1 THEN [i \in DOMAIN p.data |-> p.data[i][2]] ELSE p.data

\* a variant of Binarize: a score equal to the threshold decides 0
BinarizeStrict(scores, t) == [i \in DOMAIN scores |-> IF scores[i] > t THEN 1 ELSE 0]

\* (predictions >= threshold).astype(int)
Binarize(scores, t) == [i \in DOMAIN scores |-> IF scores[i] >= t THEN 1 ELSE 0]

\* the shapes numpy broadcasts a == b over
Broadcastable(a, b) == Len(a) = Len(b) \/ Len(a) = 1 \/ Len(b) = 1

\* (a == b).sum() under numpy's broadcasting of 1-D arrays
EqualSum(a, b) ==
    IF Len(a) = Len(b) THEN Cardinality({i \in 1..Len(a) : a[i] = b[i]})
    ELSE IF Len(a) = 1 THEN Cardinality({i \in 1..Len(b) : a[1] = b[i]})
    ELSE Cardinality({i \in 1..Len(a) : a[i] = b[1]})

---------------------------------------------------------------------------
(* calculate_accuracy *)

\* The set of outcomes.  Arrays that do not broadcast: numpy >= 1.25 raises
\* ValueError from ==, older numpy returns the bool False, whose .sum()
\* raises AttributeError.
calculate_accuracy(p, l, t) ==
    LET binary_preds == Binarize(PositiveClass(p), t)
        total == Len(l)
    IN  IF Broadcastable(binary_preds, l)
        THEN LET correct == EqualSum(binary_preds, l)
             IN  {Ok(IF total > 0 THEN <<correct, total>> ELSE Zero)}
        ELSE {Raise("ValueError"), Raise("AttributeError")}

---------------------------------------------------------------------------
(* calculate_metrics *)

\* the elements of a set of numbers in increasing order
SortedSeq(S) ==
    [i \in 1..Cardinality(S) |-> CHOOSE x \in S : Cardinality({y \in S : y < x}) = i - 1]

\* sklearn.utils.multiclass.unique_labels
unique_labels(y_true, y_pred) ==
    SortedSeq({y_true[i] : i \in DOMAIN y_true} \cup {y_pred[i] : i \in DOMAIN y_pred})

\* sklearn.metrics.confusion_matrix(y_true, y_pred), labels=None: one row and
\* one column per label that occurs in y_true or y_pred
confusion_matrix(y_true, y_pred) ==
    IF Len(y_true) # Len(y_pred) THEN Raise("ValueError")
    ELSE LET labs == unique_labels(y_true, y_pred)
             n == Len(labs)
         IN  Ok([i \in 1..n |-> [j \in 1..n |->
                    Cardinality({k \in 1..Len(y_true) :
                                    y_true[k] = labs[i] /\ y_pred[k] = labs[j]})]])

\* ndarray.ravel() of a square matrix, row-major
ravel(m) ==
    [k \in 1..(Len(m) * Len(m)) |-> m[((k - 1) \div Len(m)) + 1][((k - 1) % Len(m)) + 1]]

\* x / d if d > 0 else 0
Ratio(x, d) == IF d > 0 THEN <<x, d>> ELSE Zero

MetricsOf(tn, fp, fn, tp) ==
    [accuracy    |-> Ratio(tp + tn, tp + tn + fp + fn),
     precision   |-> Ratio(tp, tp + fp),
     recall      |-> Ratio(tp, tp + fn),
     specificity |-> Ratio(tn, tn + fp),
     f1_score    |-> Ratio(2 * tp, 2 * tp + fp + fn),
     fpr         |-> Ratio(fp, fp + tn),
     fnr         |-> Ratio(fn, fn + tp),
     tp |-> tp, tn |-> tn, fp |-> fp, fn |-> fn]

\* tn, fp, fn, tp = confusion_matrix(labels, binary_preds).ravel()
Unpack4(flat) ==
    IF Len(flat) # 4 THEN Raise("ValueError")
    ELSE Ok(MetricsOf(flat[1], flat[2], flat[3], flat[4]))

calculate_metrics(p, l, t) ==
    LET binary_preds == Binarize(PositiveClass(p), t)
        cm == confusion_matrix(l, binary_preds)
    IN  IF ~Returned(cm) THEN cm ELSE Unpack4(ravel(cm.value))

---------------------------------------------------------------------------
(* Exact arithmetic on the floats of the ROC functions *)

RECURSIVE GCD(_, _)
GCD(a, b) == IF b = 0 THEN a ELSE GCD(b, a % b)

Abs(x) == IF x < 0 THEN 0 - x ELSE x

\* numerator / denominator in lowest terms, the denominator positive
Lowest(x, d) ==
    IF d = 0 THEN NaN
    ELSE LET g == GCD(Abs(x), Abs(d))
             sgn == IF d < 0 THEN 0 - 1 ELSE 1
         IN  <<sgn * (x \div g), sgn * (d \div g)>>

\* Each operand is evaluated once, x and y being its value.
Rat(x, d) == CHOOSE r \in {Lowest(u, v) : u \in {x}, v \in {d}} : TRUE

RatAdd(a, b) ==
    CHOOSE r \in {IF IsNaN(x) \/ IsNaN(y) THEN NaN
                  ELSE Lowest(x[1] * y[2] + y[1] * x[2], x[2] * y[2]) :
                  x \in {a}, y \in {b}} : TRUE
RatSub(a, b) ==
    CHOOSE r \in {IF IsNaN(x) \/ IsNaN(y) THEN NaN
                  ELSE Lowest(x[1] * y[2] - y[1] * x[2], x[2] * y[2]) :
                  x \in {a}, y \in {b}} : TRUE
RatMul(a, b) ==
    CHOOSE r \in {IF IsNaN(x) \/ IsNaN(y) THEN NaN
                  ELSE Lowest(x[1] * y[1], x[2] * y[2]) :
                  x \in {a}, y \in {b}} : TRUE
RatAbs(a) == CHOOSE r \in {<<Abs(x[1]), x[2]>> : x \in {a}} : TRUE
\* a < b; False when either is NaN, as every float comparison with NaN is
RatLt(a, b) == ~IsNaN(a) /\ ~IsNaN(b) /\ a[1] * b[2] < b[1] * a[2]
Half == <<1, 2>>

---------------------------------------------------------------------------
(* sklearn.metrics.roc_curve and auc *)

\* the larger of all scores, the threshold roc_curve puts before the sweep
\* (np.inf; max(y_score) + 1 before scikit-learn 1.3)
Inf(y_score) ==
    1 + (CHOOSE m \in {y_score[i] : i \in DOMAIN y_score} : \A i \in DOMAIN y_score : y_score[i] <= m)

\* np.argsort(y_score, kind="mergesort")[::-1]: descending scores, equal
\* scores in the reverse of their order in the input
DescScoreIndices(y_score) ==
    LET n == Len(y_score)
        Before(j, k) == y_score[j] > y_score[k] \/ (y_score[j] = y_score[k] /\ j > k)
        Rank(k) == 1 + Cardinality({j \in 1..n : Before(j, k)})
    IN  [i \in 1..n |-> CHOOSE k \in 1..n : Rank(k) = i]

\* sklearn.metrics._ranking._binary_clf_curve: one point per distinct score,
\* the counts of positives and of negatives scored at least that high
binary_clf_curve(y_true, y_score) ==
    LET n == Len(y_score)
        desc == DescScoreIndices(y_score)
        score == [i \in 1..n |-> y_score[desc[i]]]
        true == [i \in 1..n |-> y_true[desc[i]]]
        \* np.where(np.diff(y_score))[0], then the last index
        threshold_idxs == SortedSeq({i \in 1..n : i = n \/ score[i] # score[i + 1]})
        cumsum(i) == Cardinality({k \in 1..i : true[k] = 1})
        tps == [j \in DOMAIN threshold_idxs |-> cumsum(threshold_idxs[j])]
        fps == [j \in DOMAIN threshold_idxs |-> threshold_idxs[j] - tps[j]]
    IN  [fps |-> fps, tps |-> tps,
         thresholds |-> [j \in DOMAIN threshold_idxs |-> score[threshold_idxs[j]]]]

\* np.diff(x, 2)[i - 1] for the 1-based inner index i
Diff2(x, i) == x[i + 1] - 2 * x[i] + x[i - 1]

\* drop_intermediate=True: the points of the sweep that are no corner of the
\* curve are dropped (the first and the last are kept)
DropIntermediate(c) ==
    LET n == Len(c.fps)
    IN  IF n > 2
        THEN LET optimal_idxs ==
                     SortedSeq({i \in 1..n : i = 1 \/ i = n
                                             \/ Diff2(c.fps, i) # 0 \/ Diff2(c.tps, i) # 0})
             IN  [fps |-> [j \in DOMAIN optimal_idxs |-> c.fps[optimal_idxs[j]]],
                  tps |-> [j \in DOMAIN optimal_idxs |-> c.tps[optimal_idxs[j]]],
                  thresholds |-> [j \in DOMAIN optimal_idxs |-> c.thresholds[optimal_idxs[j]]]]
        ELSE c

\* fps / fps[-1], and NaN everywhere if fps[-1] <= 0
Rates(counts) ==
    LET last == counts[Len(counts)]
    IN  [i \in DOMAIN counts |-> IF last <= 0 THEN NaN ELSE Rat(counts[i], last)]

\* roc_curve(y_true, y_score): (fpr, tpr, thresholds)
roc_curve(y_true, y_score) ==
    IF Len(y_true) # Len(y_score) THEN Raise("ValueError")
    ELSE IF Len(y_true) = 0 THEN Raise("ValueError")
    ELSE LET c == DropIntermediate(binary_clf_curve(y_true, y_score))
         IN  Ok([fpr |-> Rates(<<0>> \o c.fps),
                 tpr |-> Rates(<<0>> \o c.tps),
                 thresholds |-> <<Inf(y_score)>> \o c.thresholds])

RECURSIVE Trapz(_, _, _)
\* np.trapz(y, x) from interval i on
Trapz(y, x, i) ==
    IF i >= Len(x) THEN Zero
    ELSE RatAdd(RatMul(RatMul(RatSub(x[i + 1], x[i]), RatAdd(y[i], y[i + 1])), Half),
                Trapz(y, x, i + 1))

\* sklearn.metrics.auc(x, y)
auc(x, y) ==
    IF Len(x) < 2 THEN Raise("ValueError")
    ELSE LET decreasing(i) == RatLt(x[i + 1], x[i])
             nonincreasing(i) == RatLeq(x[i + 1], x[i])
         IN  IF \E i \in 1..(Len(x) - 1) : decreasing(i)
             THEN IF \A i \in 1..(Len(x) - 1) : nonincreasing(i)
                  THEN Ok(RatMul(<<0 - 1, 1>>, Trapz(y, x, 1)))
                  ELSE Raise("ValueError")
             ELSE Ok(Trapz(y, x, 1))

---------------------------------------------------------------------------
(* calculate_auc_roc *)

calculate_auc_roc(p, l, return_curve) ==
    LET roc == roc_curve(l, PositiveClass(p))
    IN  IF ~Returned(roc) THEN roc
        ELSE LET auc_score == auc(roc.value.fpr, roc.value.tpr)
             IN  IF ~Returned(auc_score) THEN auc_score
                 ELSE IF return_curve
                      THEN Ok(<<auc_score.value, roc.value.fpr, roc.value.tpr>>)
                      ELSE Ok(auc_score.value)

---------------------------------------------------------------------------
(* calculate_eer *)

RECURSIVE ArgminScanLast(_, _, _)
\* a variant of ArgminScan: a later entry equal to the smallest replaces it
ArgminScanLast(a, i, best) ==
    IF i > Len(a) THEN best
    ELSE IF ~IsNaN(a[i]) /\ (best = 0 \/ RatLeq(a[i], a[best]))
         THEN ArgminScanLast(a, i + 1, i)
         ELSE ArgminScanLast(a, i + 1, best)

RECURSIVE ArgminScan(_, _, _)
\* the index kept by a left-to-right scan for the smallest entry that is
\* not NaN; 0 while every entry seen is NaN
ArgminScan(a, i, best) ==
    IF i > Len(a) THEN best
    ELSE IF ~IsNaN(a[i]) /\ (best = 0 \/ RatLt(a[i], a[best]))
         THEN ArgminScan(a, i + 1, i)
         ELSE ArgminScan(a, i + 1, best)

\* np.nanargmin(a): ValueError("All-NaN slice encountered") if all are NaN
nanargmin(a) ==
    LET idx == ArgminScan(a, 1, 0)
    IN  IF idx = 0 THEN Raise("ValueError") ELSE Ok(idx)

\* a variant of EerAt: the two rates are added and not halved
EerAtSum(fpr, fnr, thresholds, eer_index) ==
    [eer |-> RatAdd(fpr[eer_index], fnr[eer_index]),
     eer_threshold |-> thresholds[eer_index]]

\* (fpr[eer_index] + fnr[eer_index]) / 2, thresholds[eer_index]
EerAt(fpr, fnr, thresholds, eer_index) ==
    [eer |-> RatMul(RatAdd(fpr[eer_index], fnr[eer_index]), Half),
     eer_threshold |-> thresholds[eer_index]]

calculate_eer(p, l) ==
    LET roc == roc_curve(l, PositiveClass(p))
    IN  IF ~Returned(roc) THEN roc
        ELSE LET fpr == roc.value.fpr
                 fnr == [i \in DOMAIN fpr |-> RatSub(One, roc.value.tpr[i])]
                 eer_index == nanargmin([i \in DOMAIN fpr |-> RatAbs(RatSub(fpr[i], fnr[i]))])
             IN  IF ~Returned(eer_index) THEN eer_index
                 ELSE Ok(EerAt(fpr, fnr, roc.value.thresholds, eer_index.value))

---------------------------------------------------------------------------
(* generate_evaluation_report *)

\* f"{x:.4f}": the number of ten-thousandths nearest to x
Fmt4(x) == IF IsNaN(x) THEN "nan" ELSE (2 * 10000 * x[1] + x[2]) \div (2 * x[2])

\* report = f"""...""": the values the text holds
FormatReport(metrics, auc_score, eer) ==
    [accuracy    |-> Fmt4(metrics.accuracy),
     precision   |-> Fmt4(metrics.precision),
     recall      |-> Fmt4(metrics.recall),
     f1_score    |-> Fmt4(metrics.f1_score),
     specificity |-> Fmt4(metrics.specificity),
     fpr         |-> Fmt4(metrics.fpr),
     fnr         |-> Fmt4(metrics.fnr),
     eer         |-> Fmt4(eer.eer),
     eer_threshold |-> eer.eer_threshold,
     auc_roc     |-> Fmt4(auc_score),
     tp |-> metrics.tp, tn |-> metrics.tn, fp |-> metrics.fp, fn |-> metrics.fn]

generate_evaluation_report(p, l) ==
    LET metrics == calculate_metrics(p, l, DefaultThreshold)
    IN  IF ~Returned(metrics) THEN metrics
        ELSE LET auc_score == calculate_auc_roc(p, l, FALSE)
             IN  IF ~Returned(auc_score) THEN auc_score
                 ELSE LET eer == calculate_eer(p, l)
                      IN  IF ~Returned(eer) THEN eer
                          ELSE Ok(FormatReport(metrics.value, auc_score.value, eer.value))

---------------------------------------------------------------------------
(* split_audio *)

\* the values of an audio sample
Samples == {0 - 1, 0, 1}

\* int(segment_duration * sr), the duration counted in half seconds
SegmentLength(duration, rate) == (duration * rate) \div 2

\* audio[start:end] for 0 <= start <= end: the slice stops at the array's end
Slice(a, start, end) ==
    [i \in 1..((IF end < Len(a) THEN end ELSE Len(a)) - start) |-> a[start + i]]

\* np.pad(segment, (0, k)): k zeros after the segment
Pad(segment, k) == segment \o [i \in 1..k |-> 0]

\* a variant of PadSegment: a short last segment is left short
PadSegmentNever(segment, segment_length) == segment

\* if len(segment) < segment_length: pad it with zeros
PadSegment(segment, segment_length) ==
    IF Len(segment) < segment_length
    THEN Pad(segment, segment_length - Len(segment))
    ELSE segment

RECURSIVE SplitLoop(_, _, _, _)
\* for start in range(0, len(audio), segment_length): ... segments.append(segment)
SplitLoop(a, segment_length, start, out) ==
    IF start >= Len(a) THEN out
    ELSE SplitLoop(a, segment_length, start + segment_length,
                   Append(out, PadSegment(Slice(a, start, start + segment_length),
                                          segment_length)))

\* range() raises ValueError for a step of 0
split_audio(a, rate, duration) ==
    LET segment_length == SegmentLength(duration, rate)
    IN  IF segment_length = 0 THEN Raise("ValueError")
        ELSE Ok(SplitLoop(a, segment_length, 0, <<>>))

---------------------------------------------------------------------------
(* The specifications of metrics.py *)

NoCall == [exc |-> "none", value |-> <<>>]

NoAudio ==
    /\ audio = <<>>
    /\ sr = 1
    /\ segment_duration = 0
    /\ segments = NoCall

Init ==
    /\ op = "init"
    /\ predictions \in Predictions(MaxN, MaxScore)
    /\ labels \in Labels(MaxN)
    /\ threshold \in Thresholds(MaxScore)
    /\ result = NoCall
    /\ NoAudio

InitRoc ==
    /\ op = "init"
    /\ predictions \in Predictions(MaxRocN, MaxRocScore)
    /\ labels \in Labels(MaxRocN)
    /\ threshold = DefaultThreshold
    /\ result = NoCall
    /\ NoAudio

CalculateAccuracy ==
    /\ op = "init"
    /\ op' = "calculate_accuracy"
    /\ result' \in calculate_accuracy(predictions, labels, threshold)
    /\ UNCHANGED <<predictions, labels, threshold, audioVars>>

CalculateMetrics ==
    /\ op = "init"
    /\ op' = "calculate_metrics"
    /\ result' = calculate_metrics(predictions, labels, threshold)
    /\ UNCHANGED <<predictions, labels, threshold, audioVars>>

CalculateAucRoc ==
    \E return_curve \in BOOLEAN :
        /\ op = "init"
        /\ op' = IF return_curve THEN "calculate_auc_roc_curve" ELSE "calculate_auc_roc"
        /\ result' = calculate_auc_roc(predictions, labels, return_curve)
        /\ UNCHANGED <<predictions, labels, threshold, audioVars>>

CalculateEer ==
    /\ op = "init"
    /\ op' = "calculate_eer"
    /\ result' = calculate_eer(predictions, labels)
    /\ UNCHANGED <<predictions, labels, threshold, audioVars>>

\* generate_evaluation_report takes no threshold: calculate_metrics runs at
\* its default
GenerateEvaluationReport ==
    /\ op = "init"
    /\ op' = "generate_evaluation_report"
    /\ result' = generate_evaluation_report(predictions, labels)
    /\ UNCHANGED <<predictions, labels, threshold, audioVars>>

\* every function of metrics.py that returns a value
Next ==
    \/ CalculateAccuracy
    \/ CalculateMetrics
    \/ CalculateAucRoc
    \/ CalculateEer
    \/ GenerateEvaluationReport

Spec == Init /\ [][Next]_vars

\* the threshold functions alone
NextMetrics == CalculateAccuracy \/ CalculateMetrics

SpecMetrics == Init /\ [][NextMetrics]_vars

\* calculate_eer alone, on longer inputs
NextEer == CalculateEer

SpecEer == InitRoc /\ [][NextEer]_vars

---------------------------------------------------------------------------
(* The specification of split_audio *)

InitAudio ==
    /\ op = "init"
    /\ predictions = [ndim |-> 1, data |-> <<>>]
    /\ labels = <<>>
    /\ threshold = DefaultThreshold
    /\ result = NoCall
    /\ audio \in SeqsUpTo(Samples, MaxAudioLen)
    /\ sr \in 1..MaxSr
    /\ segment_duration \in 0..MaxDuration
    /\ segments = NoCall

SplitAudio ==
    /\ op = "init"
    /\ op' = "split_audio"
    /\ segments' = split_audio(audio, sr, segment_duration)
    /\ UNCHANGED <<predictions, labels, threshold, result, audio, sr, segment_duration>>

NextAudio == SplitAudio

SpecAudio == InitAudio /\ [][NextAudio]_vars

---------------------------------------------------------------------------
(* What the claims speak of, read off the arguments of the call *)

NumScores == Len(predictions.data)
ScoreOf(i) == IF predictions.ndim = 2 THEN predictions.data[i][2] ELSE predictions.data[i]
ScoreVector == [i \in 1..NumScores |-> ScoreOf(i)]
N == Len(labels)
SameLength == NumScores = N
\* decision[i] = 1 if score[i] >= threshold else 0
Decision(i) == IF ScoreOf(i) >= threshold THEN 1 ELSE 0
Pairs(label, decision) ==
    Cardinality({i \in 1..N : labels[i] = label /\ Decision(i) = decision})
TP == Pairs(1, 1)
TN == Pairs(0, 0)
FP == Pairs(0, 1)
FN == Pairs(1, 0)
Positives == Cardinality({i \in 1..N : labels[i] = 1})
Negatives == Cardinality({i \in 1..N : labels[i] = 0})
BothClasses == Positives > 0 /\ Negatives > 0
SingleClass == N > 0 /\ ~BothClasses
AllMatch == SameLength /\ \A i \in 1..N : Decision(i) = labels[i]
MetricKeys ==
    {"accuracy", "precision", "recall", "specificity", "f1_score", "fpr", "fnr",
     "tp", "tn", "fp", "fn"}
SegLen == (segment_duration * sr) \div 2
CeilDiv(a, b) == (a + b - 1) \div b

---------------------------------------------------------------------------
(* The claims *)

\* res is ((fpr[idx] + (1 - tpr[idx])) / 2, thresholds[idx]) for the first
\* index idx of the sweep roc at which |fpr - (1 - tpr)| is least among the
\* entries that are not NaN; the sweep starts at fpr = 0, tpr = 0 and its
\* thresholds decrease
FirstMinimum(roc, res) ==
    \E fnr \in {[i \in DOMAIN roc.fpr |-> RatSub(One, roc.tpr[i])]} :
    \E gap \in {[i \in DOMAIN roc.fpr |-> RatAbs(RatSub(roc.fpr[i], fnr[i]))]} :
        /\ RatEq(roc.fpr[1], Zero) /\ RatEq(roc.tpr[1], Zero)
        /\ \A i \in 1..(Len(roc.thresholds) - 1) :
                roc.thresholds[i] > roc.thresholds[i + 1]
        /\ \E idx \in DOMAIN gap :
                /\ ~IsNaN(gap[idx])
                /\ \A j \in DOMAIN gap : IsNaN(gap[j]) \/ RatLeq(gap[idx], gap[j])
                /\ \A j \in 1..(idx - 1) : IsNaN(gap[j]) \/ RatLt(gap[idx], gap[j])
                /\ RatEq(res.eer, RatMul(RatAdd(roc.fpr[idx], fnr[idx]), Half))
                /\ res.eer_threshold = roc.thresholds[idx]

\* C1: for every scores vector and labels vector over {0,1} of the same
\* length N (here N >= 1) and every threshold, calculate_metrics returns four counts that
\* are non-negative integers with tp + tn + fp + fn = N.
C1_CountsSumToN ==
    (op = "calculate_metrics" /\ SameLength /\ N >= 1) =>
        /\ Returned(result)
        /\ \A k \in {"tp", "tn", "fp", "fn"} : result.value[k] \in Nat
        /\ result.value.tp + result.value.tn + result.value.fp + result.value.fn = N

\* C2: a zero denominator is never an error in calculate_metrics: for every
\* non-empty input of matching lengths the call returns a mapping with all eleven keys,
\* and each ratio whose denominator is 0 has the value 0.
C2_ZeroDenominatorNeverRaises ==
    (op = "calculate_metrics" /\ SameLength /\ N >= 1) =>
        /\ Returned(result)
        /\ DOMAIN result.value = MetricKeys
        /\ (TP + TN + FP + FN = 0 => RatEq(result.value.accuracy, Zero))
        /\ (TP + FP = 0 => RatEq(result.value.precision, Zero))
        /\ (TP + FN = 0 => RatEq(result.value.recall, Zero))
        /\ (TN + FP = 0 => RatEq(result.value.specificity, Zero))
        /\ (2 * TP + FP + FN = 0 => RatEq(result.value.f1_score, Zero))
        /\ (FP + TN = 0 => RatEq(result.value.fpr, Zero))
        /\ (FN + TP = 0 => RatEq(result.value.fnr, Zero))

\* C3 as stated: the eer that calculate_eer returns lies within [0, 0.5].
C3_EerAtMostHalf ==
    (op = "calculate_eer" /\ Returned(result)) =>
        RatLeq(Zero, result.value.eer) /\ RatLeq(result.value.eer, Half)

\* C3 as amended: for scores and labels of the same length with both classes
\* among the labels, calculate_eer returns an eer within [0, 1]; on every
\* other input it raises.
C3_EerInUnitInterval ==
    op = "calculate_eer" =>
        IF SameLength /\ BothClasses
        THEN /\ Returned(result)
             /\ RatLeq(Zero, result.value.eer)
             /\ RatLeq(result.value.eer, One)
        ELSE ~Returned(result)

\* an eer above 0.5 is returned (scores anti-correlated with the labels)
C3_Witness ==
    /\ op = "calculate_eer"
    /\ Returned(result)
    /\ RatLt(Half, result.value.eer)

\* C4: when the labels contain only one class, calculate_auc_roc and
\* calculate_eer raise instead of returning a value, and so does
\* generate_evaluation_report.
C4_SingleClassIsAnError ==
    (/\ op \in {"calculate_auc_roc", "calculate_auc_roc_curve", "calculate_eer",
                "generate_evaluation_report"}
     /\ SameLength
     /\ SingleClass) => ~Returned(result)

\* C5: when the lengths of scores and labels differ, calculate_accuracy,
\* calculate_metrics, calculate_auc_roc and calculate_eer raise; none returns
\* a value.
C5_LengthMismatchFailsFast ==
    (/\ op \in {"calculate_accuracy", "calculate_metrics", "calculate_auc_roc",
                "calculate_auc_roc_curve", "calculate_eer"}
     /\ ~SameLength) => ~Returned(result)

\* C6: accuracy is (tp + tn) / N for every input, and 0 when N = 0, with no
\* exception, both as calculate_accuracy's value and as calculate_metrics'
\* 'accuracy' entry.
C6_AccuracyOnEveryInput ==
    LET expected == IF N = 0 THEN Zero ELSE <<TP + TN, N>>
    IN  /\ (op = "calculate_accuracy" /\ SameLength) =>
                Returned(result) /\ RatEq(result.value, expected)
        /\ (op = "calculate_metrics" /\ SameLength) =>
                Returned(result) /\ RatEq(result.value.accuracy, expected)

C8_TpPlusFnIsPositives ==
    (op = "calculate_metrics" /\ SameLength /\ N >= 1) =>
        /\ Returned(result)
        /\ result.value.tp + result.value.fn = Positives

\* C9: calculate_eer returns ((fpr[idx] + (1 - tpr[idx])) / 2, thresholds[idx])
\* for the first index idx of the ROC sweep at which |fpr - (1 - tpr)| is
\* least among the entries that are not NaN; the sweep starts at the point
\* fpr = 0, tpr = 0 and its thresholds decrease, so the threshold returned is
\* one of the sweep's.
C9_FirstMinimumOfSweep ==
    (op = "calculate_eer" /\ Returned(result)) =>
        \E roc \in {roc_curve(labels, ScoreVector).value} :
            FirstMinimum(roc, result.value)

\* the least gap is attained at two indices of the sweep, and the first is
\* the one returned
C9_Witness ==
    /\ op = "calculate_eer"
    /\ Returned(result)
    /\ LET roc == roc_curve(labels, ScoreVector).value
           gap == [i \in DOMAIN roc.fpr |->
                      RatAbs(RatSub(roc.fpr[i], RatSub(One, roc.tpr[i])))]
       IN  \E i, j \in DOMAIN gap :
               /\ i < j
               /\ RatEq(gap[i], gap[j])
               /\ \A k \in DOMAIN gap : RatLeq(gap[i], gap[k])
               /\ result.value.eer_threshold = roc.thresholds[i]

\* C10: for an audio array of length L and segment_length >= 1, split_audio
\* returns ceil(L / segment_length) segments, each of length segment_length;
\* the segments in order are the audio followed by zeros, and only the last
\* segment holds padding.
C10_SplitAudioSegments ==
    (op = "split_audio" /\ SegLen >= 1) =>
        /\ Returned(segments)
        /\ LET segs == segments.value
               L == Len(audio)
           IN  /\ Len(segs) = CeilDiv(L, SegLen)
               /\ \A k \in 1..Len(segs) : Len(segs[k]) = SegLen
               /\ \A k \in 1..Len(segs) : \A j \in 1..Len(segs[k]) :
                      LET pos == (k - 1) * SegLen + j
                      IN  IF pos <= L THEN segs[k][j] = audio[pos]
                          ELSE segs[k][j] = 0 /\ k = Len(segs)

\* several segments, the last of them padded
C10_Witness ==
    /\ op = "split_audio"
    /\ SegLen >= 1
    /\ Len(audio) > SegLen
    /\ Len(audio) % SegLen # 0
    /\ Returned(segments)
    /\ Len(segments.value) >= 2

---------------------------------------------------------------------------
(* Further properties of the functions *)

\* calculate_metrics returns exactly when both 0 and 1 occur among the labels
\* and the binarized predictions together; the counts it returns are the four
\* counts of (label, decision) pairs
MetricsReturnsOnTwoClasses ==
    op = "calculate_metrics" =>
        /\ Returned(result) <=>
              /\ SameLength
              /\ \E i \in 1..N : labels[i] = 1 \/ Decision(i) = 1
              /\ \E i \in 1..N : labels[i] = 0 \/ Decision(i) = 0
        /\ Returned(result) =>
              /\ result.value.tp = TP /\ result.value.tn = TN
              /\ result.value.fp = FP /\ result.value.fn = FN

\* the functions built on sklearn raise on scores and labels of different
\* lengths
SklearnMismatchRaises ==
    (/\ op \in {"calculate_metrics", "calculate_auc_roc", "calculate_auc_roc_curve",
                "calculate_eer", "generate_evaluation_report"}
     /\ ~SameLength) => ~Returned(result)

\* calculate_eer and generate_evaluation_report raise on single-class labels
EerRaisesOnSingleClass ==
    (op \in {"calculate_eer", "generate_evaluation_report"} /\ SameLength /\ SingleClass)
        => ~Returned(result)

\* with both classes among the labels the AUC is a number in [0, 1]
AucInUnitInterval ==
    (op = "calculate_auc_roc" /\ SameLength /\ BothClasses) =>
        Returned(result) /\ RatLeq(Zero, result.value) /\ RatLeq(result.value, One)

====
